---- MODULE Spec2Model ----
(***************************************************************************)
(* Model of the analytics/query layer of analitica_spotify                 *)
(* (src/src/analitica_spotify/consultas.py) and of the helpers of          *)
(* dashboard.py that derive values from it.                                *)
(*                                                                         *)
(* The event table df is a sequence of rows.  A row is a record            *)
(*   [fecha_reproduccion, artista, minutos_reproducidos]                   *)
(* where fecha_reproduccion is a timestamp in seconds since                *)
(* 2024-01-01 00:00 (a Monday), artista is an artist code whose numeric    *)
(* order stands for the lexicographic order of the artist names, and       *)
(* minutos_reproducidos is a non-negative number of minutes.  The columns  *)
(* fecha, hora and dia_semana are derived from the timestamp.              *)
(*                                                                         *)
(* Numbers are integers: minutes are whole minutes, percentages are kept   *)
(* in hundredths of a percent (round(x, 2) keeps two decimals).            *)
(***************************************************************************)
EXTENDS Integers, Sequences, FiniteSets, TLC

VARIABLES
    df,     \* the event table the loader has built so far
    res,    \* the value returned by the last query, with its arguments
    previo  \* a value an earlier query returned for the same table

vars == <<df, res, previo>>

-----------------------------------------------------------------------------
(* Bounds of the model *)

MaxFilasRacha == 4
MaxDia == 5
MaxFilasObsesion == 3
MaxArtistas == 3
MaxRango == 3
MaxFilasBloque == 2
MaxFilasSemana == 3
MaxFilasMitad == 3
MaxArtistasMitad == 2
MaxTopN == 2

\* Representative values of minutos_reproducidos of one row, and of the
\* threshold umbral_minutos_dia
Minutos == {1, 2}
Umbrales == {1, 2, 3}

\* Minutes of one row where a row of 0 minutes matters (a total of 0)
MinutosConCero == {0, 1, 2}

-----------------------------------------------------------------------------
(* Calendar *)

SegPorHora == 3600
SegPorDia == 86400

\* None of Python, for an absent date; dates are non-negative day ordinals.
None == -1

\* NaN of numpy, for an undefined number; every number of the model that can
\* be compared with it is non-negative or a difference of minutes.
NaN == -1000000

Fila(d, h, a, m) ==
    [fecha_reproduccion |-> d * SegPorDia + h * SegPorHora,
     artista |-> a,
     minutos_reproducidos |-> m]

\* df["fecha_reproduccion"].dt.date : the calendar day of a timestamp
fecha(f) == f.fecha_reproduccion \div SegPorDia

\* the stored column hora (0..23) of a row
hora(f) == (f.fecha_reproduccion % SegPorDia) \div SegPorHora

UltimaHora == 23

orden_dias ==
    <<"Monday", "Tuesday", "Wednesday",
      "Thursday", "Friday", "Saturday", "Sunday">>

\* the stored column dia_semana of a row: the English name of the weekday
\* of its date (day 0 of the calendar is a Sunday, day 1 a Monday)
dia_semana(f) == orden_dias[((fecha(f) + 6) % 7) + 1]

-----------------------------------------------------------------------------
(* Generic helpers: sums, sorted keys *)

RECURSIVE SumaIdx(_, _)
\* sum of minutos_reproducidos over the rows of t whose index is in I
SumaIdx(t, I) ==
    IF I = {} THEN 0
    ELSE LET i == CHOOSE j \in I : TRUE
         IN  t[i].minutos_reproducidos + SumaIdx(t, I \ {i})

Minimo(S) == CHOOSE x \in S : \A y \in S : x <= y
Maximo(S) == CHOOSE x \in S : \A y \in S : x >= y

RECURSIVE Ascendente(_)
\* the elements of a finite set of integers, in ascending order
Ascendente(S) ==
    IF S = {} THEN <<>>
    ELSE LET m == Minimo(S) IN <<m>> \o Ascendente(S \ {m})

\* df.groupby("fecha")["minutos_reproducidos"].sum().reset_index():
\* one row per calendar day that has an event, ascending by day
DiariosPorFecha(t) ==
    LET claves == Ascendente({fecha(t[i]) : i \in DOMAIN t})
    IN  [k \in DOMAIN claves |->
            [fecha |-> claves[k],
             minutos_reproducidos |->
                SumaIdx(t, {i \in DOMAIN t : fecha(t[i]) = claves[k]})]]

RECURSIVE OrdenarPorFecha(_)
\* sort_values("fecha").reset_index(drop=True): insertion of each row in
\* ascending order of fecha (the keys of a groupby are distinct)
OrdenarPorFecha(s) ==
    IF s = <<>> THEN <<>>
    ELSE LET k == CHOOSE i \in DOMAIN s :
                      \A j \in DOMAIN s : s[i].fecha <= s[j].fecha
         IN  <<s[k]>> \o
             OrdenarPorFecha([i \in 1..(Len(s) - 1) |->
                                 IF i < k THEN s[i] ELSE s[i + 1]])

-----------------------------------------------------------------------------
(* racha_musical_mas_larga *)

\* fechas[i] with Python's 0-based index
En(s, i) == s[i + 1]

RECURSIVE BucleRachaEmpate(_, _, _, _, _, _)
\* BucleRacha with the best run replaced by a run of the same length (>=)
BucleRachaEmpate(fechas, i, max_len, curr_len, start_idx, best_start_idx) ==
    IF i >= Len(fechas)
    THEN [max_len |-> max_len, curr_len |-> curr_len,
          start_idx |-> start_idx, best_start_idx |-> best_start_idx]
    ELSE IF En(fechas, i) - En(fechas, i - 1) = 1
         THEN BucleRachaEmpate(fechas, i + 1, max_len, curr_len + 1,
                               start_idx, best_start_idx)
         ELSE IF curr_len >= max_len
              THEN BucleRachaEmpate(fechas, i + 1, curr_len, 1, i, start_idx)
              ELSE BucleRachaEmpate(fechas, i + 1, max_len, 1, i,
                                    best_start_idx)

RECURSIVE BucleRacha(_, _, _, _, _, _)
\* the for loop of racha_musical_mas_larga from index i on; returns the
\* loop variables at the end of the scan
BucleRacha(fechas, i, max_len, curr_len, start_idx, best_start_idx) ==
    IF i >= Len(fechas)
    THEN [max_len |-> max_len, curr_len |-> curr_len,
          start_idx |-> start_idx, best_start_idx |-> best_start_idx]
    ELSE IF En(fechas, i) - En(fechas, i - 1) = 1
         THEN BucleRacha(fechas, i + 1, max_len, curr_len + 1,
                         start_idx, best_start_idx)
         ELSE IF curr_len > max_len
              THEN BucleRacha(fechas, i + 1, curr_len, 1, i, start_idx)
              ELSE BucleRacha(fechas, i + 1, max_len, 1, i, best_start_idx)

\* ActivosPorUmbral with the comparison turned round (<= instead of >=)
ActivosBajoUmbral(diarios, umbral_minutos_dia) ==
    SelectSeq(diarios, LAMBDA r : r.minutos_reproducidos <= umbral_minutos_dia)

\* ActivosPorUmbral with a strict comparison (> instead of >=)
ActivosSobreUmbral(diarios, umbral_minutos_dia) ==
    SelectSeq(diarios, LAMBDA r : r.minutos_reproducidos > umbral_minutos_dia)

\* diarios[diarios["minutos_reproducidos"] >= umbral_minutos_dia]
ActivosPorUmbral(diarios, umbral_minutos_dia) ==
    SelectSeq(diarios, LAMBDA r : r.minutos_reproducidos >= umbral_minutos_dia)

\* racha_musical_mas_larga without the comparison that follows the loop
racha_sin_comparacion_final(t, umbral_minutos_dia) ==
    LET activos0 == ActivosPorUmbral(DiariosPorFecha(t), umbral_minutos_dia)
    IN  IF activos0 = <<>>
        THEN [longitud_racha |-> 0, fecha_inicio |-> None, fecha_fin |-> None]
        ELSE LET activos == OrdenarPorFecha(activos0)
                 fechas == [k \in DOMAIN activos |-> activos[k].fecha]
                 fin == BucleRacha(fechas, 1, 1, 1, 0, 0)
             IN  [longitud_racha |-> fin.max_len,
                  fecha_inicio |-> En(fechas, fin.best_start_idx),
                  fecha_fin |->
                      En(fechas, fin.best_start_idx + fin.max_len - 1)]

racha_musical_mas_larga(t, umbral_minutos_dia) ==
    LET diarios == DiariosPorFecha(t)
        activos0 == ActivosPorUmbral(diarios, umbral_minutos_dia)
    IN  IF activos0 = <<>>
        THEN [longitud_racha |-> 0, fecha_inicio |-> None, fecha_fin |-> None]
        ELSE LET activos == OrdenarPorFecha(activos0)
                 fechas == [k \in DOMAIN activos |-> activos[k].fecha]
                 fin == BucleRacha(fechas, 1, 1, 1, 0, 0)
                 max_len == IF fin.curr_len > fin.max_len
                            THEN fin.curr_len ELSE fin.max_len
                 best_start_idx == IF fin.curr_len > fin.max_len
                                   THEN fin.start_idx ELSE fin.best_start_idx
             IN  [longitud_racha |-> max_len,
                  fecha_inicio |-> En(fechas, best_start_idx),
                  fecha_fin |-> En(fechas, best_start_idx + max_len - 1)]

-----------------------------------------------------------------------------
(* Sorting by value, head, rounding *)

\* the permutations of 1..k
Permutaciones(k) ==
    {p \in [1..k -> 1..k] : \A i, j \in 1..k : p[i] = p[j] => i = j}

\* sort_values(<column>, ascending=...) of a sequence of rows, claves being
\* the values of the column, row by row.  The default kind is quicksort,
\* which numpy does not promise to be stable: every arrangement in the order
\* of the values is a possible outcome, and the set of them all is returned.
Ordenaciones(s, claves, ascending) ==
    {[i \in DOMAIN s |-> s[p[i]]] : p \in
        {q \in Permutaciones(Len(s)) :
            \A i \in 1..(Len(s) - 1) :
                IF ascending THEN claves[q[i]] <= claves[q[i + 1]]
                             ELSE claves[q[i]] >= claves[q[i + 1]]}}

\* What a build does with equal keys in sort_values: "estable" leaves them in
\* the order of the input, "inverso" turns them round.  The sort is a function
\* of its input, so one build gives one arrangement of Ordenaciones; which one
\* is not promised.
Desempates == {"estable", "inverso"}

\* sort_values(<column>, ascending=...) as the build with the given way of
\* breaking ties computes it
Ordenar(s, claves, ascending, desempate) ==
    LET Antes(i, j) ==
            \/ IF ascending THEN claves[i] < claves[j]
                            ELSE claves[i] > claves[j]
            \/ /\ claves[i] = claves[j]
               /\ IF desempate = "estable" THEN i < j ELSE i > j
        lugar == [i \in DOMAIN s |->
                     Cardinality({j \in DOMAIN s : Antes(j, i)}) + 1]
    IN  [k \in DOMAIN s |-> s[CHOOSE i \in DOMAIN s : lugar[i] = k]]

\* the column valor of a sequence of rows
Valores(s) == [k \in DOMAIN s |-> s[k].valor]

\* .head(n): the first n rows; with a negative n, all but the last -n
head(s, n) ==
    IF n >= 0
    THEN SubSeq(s, 1, IF n < Len(s) THEN n ELSE Len(s))
    ELSE SubSeq(s, 1, IF Len(s) + n > 0 THEN Len(s) + n ELSE 0)

RECURSIVE SumaValores(_)
\* .sum() of the field valor
SumaValores(s) ==
    IF s = <<>> THEN 0 ELSE s[1].valor + SumaValores(Tail(s))

\* num / den rounded to the nearest integer, halves to the even one
\* (round(x, 2) of a numpy float, in hundredths), for num >= 0 and den > 0
Redondear(num, den) ==
    LET q == num \div den
        r == num % den
    IN  IF 2 * r < den THEN q
        ELSE IF 2 * r > den THEN q + 1
        ELSE IF q % 2 = 0 THEN q ELSE q + 1

\* PorArtista with the artists in the order of their first row in the table
\* (groupby with sort=False)
PorArtistaSinOrden(t) ==
    LET primeras == Ascendente({i \in DOMAIN t :
                        \A j \in 1..(i - 1) : t[j].artista # t[i].artista})
    IN  [k \in DOMAIN primeras |->
            [artista |-> t[primeras[k]].artista,
             valor |-> SumaIdx(t, {i \in DOMAIN t :
                                     t[i].artista = t[primeras[k]].artista})]]

\* df.groupby("artista")["minutos_reproducidos"].sum(): one entry per artist
\* with an event, ascending by artist
PorArtista(t) ==
    LET claves == Ascendente({t[i].artista : i \in DOMAIN t})
    IN  [k \in DOMAIN claves |->
            [artista |-> claves[k],
             valor |-> SumaIdx(t, {i \in DOMAIN t :
                                     t[i].artista = claves[k]})]]

-----------------------------------------------------------------------------
(* indice_obsesion, obsesion_multi *)

\* SumaTopN with the first n entries skipped instead of kept (iloc[n:])
SumaSinTopN(t, n) ==
    LET serie == PorArtista(t)
        o == Ordenar(serie, Valores(serie), FALSE, "estable")
    IN  SumaValores(SubSeq(o, (IF n < Len(o) THEN n ELSE Len(o)) + 1, Len(o)))

\* the sum of the n greatest sums per artist; it is the same for every
\* arrangement of ties
SumaTopN(t, n) ==
    LET serie == PorArtista(t)
        o == Ordenar(serie, Valores(serie), FALSE, "estable")
    IN  SumaValores(head(o, n))

\* indice_obsesion without the guard total == 0: numpy's 0.0 / 0.0 is nan
indice_sin_guarda(t, n) ==
    LET total == SumaIdx(t, DOMAIN t)
    IN  IF total = 0 THEN NaN
        ELSE Redondear(SumaTopN(t, n) * 10000, total)

\* the percentage, in hundredths of a percent, of the total minutes that
\* the n most played artists hold
indice_obsesion(t, n) ==
    LET total == SumaIdx(t, DOMAIN t)
    IN  IF total = 0 THEN 0
        ELSE Redondear(SumaTopN(t, n) * 10000, total)

\* niveles=(1, 5, 10)
Niveles == {1, 5, 10}

obsesion_multi(t, niveles) == [n \in niveles |-> indice_obsesion(t, n)]

-----------------------------------------------------------------------------
(* Grouped sums by a label, reindex, dropna *)

\* df.groupby(<column>)["minutos_reproducidos"].sum() for a column of
\* labels, etiquetas being the labels of the column, row by row: the sum of
\* every label that occurs
PorEtiqueta(t, etiquetas) ==
    [e \in {etiquetas[i] : i \in DOMAIN t} |->
        SumaIdx(t, {i \in DOMAIN t : etiquetas[i] = e})]

\* serie.reindex(orden, fill_value=relleno): one entry per label of orden,
\* in that order; a label the series lacks gets relleno (NaN by default),
\* a label of the series that orden lacks is dropped
reindex(serie, orden, relleno) ==
    [k \in DOMAIN orden |->
        [etiqueta |-> orden[k],
         valor |-> IF orden[k] \in DOMAIN serie
                   THEN serie[orden[k]] ELSE relleno]]

dropna(s) == SelectSeq(s, LAMBDA r : r.valor # NaN)

-----------------------------------------------------------------------------
(* minutos_por_bloque_horario *)

bloques == <<"madrugada", "manana", "tarde", "noche">>

\* Series.between(a, b): both ends included
between(x, a, b) == a <= x /\ x <= b

\* np.select(condiciones, bloques, default="desconocido"): the choice of
\* the first condition that holds
bloque_horario(f) ==
    IF between(hora(f), 0, 5) THEN bloques[1]
    ELSE IF between(hora(f), 6, 11) THEN bloques[2]
    ELSE IF between(hora(f), 12, 17) THEN bloques[3]
    ELSE IF between(hora(f), 18, 23) THEN bloques[4]
    ELSE "desconocido"

\* minutos_por_bloque_horario with the blocks that have no event left out
\* (reindex without fill_value, then dropna, as minutos_por_dia_semana does)
minutos_por_bloque_sin_relleno(t) ==
    dropna(reindex(PorEtiqueta(t, [i \in DOMAIN t |-> bloque_horario(t[i])]),
                   bloques, NaN))

minutos_por_bloque_horario(t) ==
    reindex(PorEtiqueta(t, [i \in DOMAIN t |-> bloque_horario(t[i])]),
            bloques, 0)

-----------------------------------------------------------------------------
(* minutos_por_dia_semana *)

\* minutos_por_dia_semana with the absent weekdays filled with 0
\* (reindex with fill_value=0, as minutos_por_bloque_horario does)
minutos_por_dia_semana_rellenado(t) ==
    dropna(reindex(PorEtiqueta(t, [i \in DOMAIN t |-> dia_semana(t[i])]),
                   orden_dias, 0))

minutos_por_dia_semana(t) ==
    dropna(reindex(PorEtiqueta(t, [i \in DOMAIN t |-> dia_semana(t[i])]),
                   orden_dias, NaN))

-----------------------------------------------------------------------------
(* artistas_emergentes_y_olvidados *)

\* fecha_min + (fecha_max - fecha_min) / 2; the timestamps of the table are
\* whole hours, so that half their difference is a whole number of seconds
Corte(t) ==
    LET fecha_min == Minimo({t[i].fecha_reproduccion : i \in DOMAIN t})
        fecha_max == Maximo({t[i].fecha_reproduccion : i \in DOMAIN t})
    IN  fecha_min + (fecha_max - fecha_min) \div 2

\* np.where(df["fecha_reproduccion"] <= corte, "H1", "H2")
mitad(f, corte) == IF f.fecha_reproduccion <= corte THEN "H1" ELSE "H2"

\* fillna without effect: the NaN of an absent half is kept
sin_fillna(x, relleno) == x

\* fillna(relleno) of one cell
fillna(x, relleno) == IF x = NaN THEN relleno ELSE x

\* tabla.pivot(index="artista", columns="mitad",
\*             values="minutos_reproducidos").fillna(0):
\* one row per artist, ascending by artist, with one column per half that
\* occurs in the table; the cell of a half without event of the artist is
\* NaN before fillna
Pivot(t) ==
    LET corte == Corte(t)
        columnas == {mitad(t[i], corte) : i \in DOMAIN t}
        artistas == Ascendente({t[i].artista : i \in DOMAIN t})
        Celda(a, c) ==
            LET I == {i \in DOMAIN t :
                        t[i].artista = a /\ mitad(t[i], corte) = c}
            IN  IF I = {} THEN NaN ELSE SumaIdx(t, I)
    IN  [k \in DOMAIN artistas |->
            [artista |-> artistas[k],
             columnas |-> [c \in columnas |->
                              fillna(Celda(artistas[k], c), 0)]]]

\* pivot.get(columna, default) for one row of the pivot
get(fila, columna, default) ==
    IF columna \in DOMAIN fila.columnas
    THEN fila.columnas[columna] ELSE default

\* a difference of two cells; a NaN operand gives NaN
Resta(a, b) == IF a = NaN \/ b = NaN THEN NaN ELSE a - b

\* pivot["delta"] = pivot.get("H2", 0) - pivot.get("H1", 0)
ConDelta(pivot) ==
    [k \in DOMAIN pivot |->
        [artista |-> pivot[k].artista,
         columnas |-> pivot[k].columnas,
         delta |-> Resta(get(pivot[k], "H2", 0), get(pivot[k], "H1", 0))]]

\* the column delta of the pivot
Deltas(pivot) == [k \in DOMAIN pivot |-> pivot[k].delta]

\* the rows in the order of the pivot, without sorting
SinOrdenar(pivot, top_n) == {head(pivot, top_n)}

\* pivot.sort_values("delta", ascending=False).head(top_n).reset_index()
Emergentes(pivot, top_n) ==
    {head(o, top_n) : o \in Ordenaciones(pivot, Deltas(pivot), FALSE)}

\* Olvidados with the sort in descending order
OlvidadosDescendente(pivot, top_n) ==
    {head(o, top_n) : o \in Ordenaciones(pivot, Deltas(pivot), FALSE)}

\* pivot.sort_values("delta", ascending=True).head(top_n).reset_index()
Olvidados(pivot, top_n) ==
    {head(o, top_n) : o \in Ordenaciones(pivot, Deltas(pivot), TRUE)}

\* the values artistas_emergentes_y_olvidados can return: one for every
\* arrangement of the ties of the two sorts
artistas_emergentes_y_olvidados(t, top_n) ==
    IF t = <<>>
    THEN {[emergentes |-> <<>>, olvidados |-> <<>>]}
    ELSE LET pivot == ConDelta(Pivot(t))
         IN  {[emergentes |-> e, olvidados |-> o] :
                  e \in Emergentes(pivot, top_n),
                  o \in Olvidados(pivot, top_n)}

-----------------------------------------------------------------------------
(* top_artistas and minutos_por_anio_mes *)

\* df.groupby("artista")["minutos_reproducidos"].sum()
\*   .sort_values(ascending=False).head(n)
top_artistas(t, n, desempate) ==
    LET serie == PorArtista(t)
    IN  head(Ordenar(serie, Valores(serie), FALSE, desempate), n)

\* The columns anio and mes of the table: the year and the month of the
\* timestamp.  Day 0 is 2023-12-31; 2024 has 366 days.
DiasPorMes(bisiesto) ==
    <<31, IF bisiesto THEN 29 ELSE 28, 31, 30, 31, 30, 31, 31, 30, 31, 30, 31>>

anio(f) == IF fecha(f) <= 366 THEN 2024 ELSE 2025

RECURSIVE MesDe(_, _, _)
MesDe(dia, m, dias) ==
    IF dia <= dias[m] THEN m ELSE MesDe(dia - dias[m], m + 1, dias)

mes(f) ==
    IF fecha(f) <= 366 THEN MesDe(fecha(f), 1, DiasPorMes(TRUE))
                       ELSE MesDe(fecha(f) - 366, 1, DiasPorMes(FALSE))

\* minutos_por_anio_mes with .max() where the code has .sum()
minutos_por_anio_mes_max(t) ==
    LET claves == Ascendente({anio(t[i]) * 12 + (mes(t[i]) - 1) :
                                  i \in DOMAIN t})
    IN  [k \in DOMAIN claves |->
            [anio |-> claves[k] \div 12,
             mes |-> (claves[k] % 12) + 1,
             minutos_reproducidos |->
                 Maximo({t[i].minutos_reproducidos : i \in
                     {j \in DOMAIN t :
                         anio(t[j]) * 12 + (mes(t[j]) - 1) = claves[k]}})]]

\* df.groupby(["anio", "mes"])["minutos_reproducidos"].sum().reset_index()
\*   .sort_values(["anio", "mes"]): one row per (anio, mes) of the table, in
\* the order of the pair, which groupby already gives and the sort keeps.
\* The pair is ordered through anio * 12 + (mes - 1).
minutos_por_anio_mes(t) ==
    LET claves == Ascendente({anio(t[i]) * 12 + (mes(t[i]) - 1) :
                                  i \in DOMAIN t})
    IN  [k \in DOMAIN claves |->
            [anio |-> claves[k] \div 12,
             mes |-> (claves[k] % 12) + 1,
             minutos_reproducidos |->
                 SumaIdx(t, {i \in DOMAIN t :
                     anio(t[i]) * 12 + (mes(t[i]) - 1) = claves[k]})]]

-----------------------------------------------------------------------------
(* resumen_entre_semana_vs_fin, the ratio the dashboard takes from it, and
   resumen_variabilidad_diaria *)

\* A float that need not be a whole number: num / den with den > 0, or one of
\* the values a division by zero gives, or Python's None in its place.
Flotante(num, den) == [clase |-> "finito", num |-> num, den |-> den]
Infinito == [clase |-> "inf"]
NoNumero == [clase |-> "nan"]
SinValor == [clase |-> "None"]

\* a / b of two finite numpy floats, a >= 0 and b >= 0: nothing is raised
\* when b is zero
Dividir(a, b) ==
    IF b.num = 0
    THEN IF a.num = 0 THEN NoNumero ELSE Infinito
    ELSE Flotante(a.num * b.den, a.den * b.num)

dias_fin == {"Friday", "Saturday", "Sunday"}

\* np.where(df["dia_semana"].isin(dias_fin), "fin_de_semana", "entre_semana")
grupo(f) ==
    IF dia_semana(f) \in dias_fin THEN "fin_de_semana" ELSE "entre_semana"

\* the rows (grupo, fecha, minutos_reproducidos) of diarios that have the
\* given grupo, after the filter on the minutes of the day
DiariosDeGrupo(t, g, umbral_minutos_dia) ==
    LET diarios == DiariosPorFecha(SelectSeq(t, LAMBDA f : grupo(f) = g))
    IN  IF umbral_minutos_dia > 0
        THEN ActivosPorUmbral(diarios, umbral_minutos_dia)
        ELSE diarios

RECURSIVE SumaDiarios(_)
SumaDiarios(diarios) ==
    IF diarios = <<>> THEN 0
    ELSE diarios[1].minutos_reproducidos + SumaDiarios(Tail(diarios))

\* one row per grupo that has a day left, entre_semana before fin_de_semana
resumen_entre_semana_vs_fin(t, umbral_minutos_dia) ==
    LET FilaDe(g) ==
            LET diarios == DiariosDeGrupo(t, g, umbral_minutos_dia)
            IN  IF diarios = <<>> THEN <<>>
                ELSE <<[grupo |-> g,
                        minutos_totales |-> SumaDiarios(diarios),
                        minutos_promedio_por_dia |->
                            Flotante(SumaDiarios(diarios), Len(diarios)),
                        dias_con_musica |-> Len(diarios)]>>
    IN  FilaDe("entre_semana") \o FilaDe("fin_de_semana")

\* ratio_semana without the test on the mean of the weekend
ratio_sin_guarda(resumen_semana) ==
    IF resumen_semana # <<>>
    THEN LET fila_entre == SelectSeq(resumen_semana,
                               LAMBDA r : r.grupo = "entre_semana")
             fila_fin == SelectSeq(resumen_semana,
                               LAMBDA r : r.grupo = "fin_de_semana")
         IN  IF fila_entre # <<>> /\ fila_fin # <<>>
             THEN Dividir(fila_entre[1].minutos_promedio_por_dia,
                          fila_fin[1].minutos_promedio_por_dia)
             ELSE SinValor
    ELSE SinValor

\* the ratio of render_tab_usuario
ratio_semana(resumen_semana) ==
    IF resumen_semana # <<>>
    THEN LET fila_entre == SelectSeq(resumen_semana,
                               LAMBDA r : r.grupo = "entre_semana")
             fila_fin == SelectSeq(resumen_semana,
                               LAMBDA r : r.grupo = "fin_de_semana")
         IN  IF fila_entre # <<>> /\ fila_fin # <<>>
             THEN IF fila_fin[1].minutos_promedio_por_dia.num > 0
                  THEN Dividir(fila_entre[1].minutos_promedio_por_dia,
                               fila_fin[1].minutos_promedio_por_dia)
                  ELSE SinValor
             ELSE SinValor
    ELSE SinValor

\* the greatest r in lo..hi with (2r - 1)^2 * den <= 4 * num, which is
\* num / den's square root rounded to the nearest integer
RECURSIVE RaizRedondeada(_, _, _, _)
RaizRedondeada(num, den, lo, hi) ==
    IF lo = hi THEN lo
    ELSE LET r == (lo + hi + 1) \div 2
         IN  IF (2 * r - 1) * (2 * r - 1) * den <= 4 * num
             THEN RaizRedondeada(num, den, r, hi)
             ELSE RaizRedondeada(num, den, lo, r - 1)

RECURSIVE SumaCuadrados(_)
SumaCuadrados(x) ==
    IF x = <<>> THEN 0 ELSE x[1] * x[1] + SumaCuadrados(Tail(x))

RECURSIVE SumaSeq(_)
SumaSeq(x) == IF x = <<>> THEN 0 ELSE x[1] + SumaSeq(Tail(x))

\* round(diarios.std(), 2), in hundredths of a minute: the deviation of the
\* sample (ddof = 1), NaN for one value.  The variance is
\* (n * sum(x^2) - sum(x)^2) / (n * (n - 1)).
std(x) ==
    LET n == Len(x)
    IN  IF n < 2 THEN NaN
        ELSE RaizRedondeada(
                 10000 * (n * SumaCuadrados(x) - SumaSeq(x) * SumaSeq(x)),
                 n * (n - 1), 0, 100 * Maximo({x[k] : k \in DOMAIN x}))

\* diarios.quantile(j / 4), in hundredths of a minute: between the values at
\* the two sides of the place (n - 1) * j / 4 of the ascending values
quantile(x, j) ==
    LET n == Len(x)
        orden == Ordenar(x, x, TRUE, "estable")
        k == ((n - 1) * j) \div 4
        resto == ((n - 1) * j) % 4
    IN  IF resto = 0 THEN 100 * orden[k + 1]
        ELSE 100 * orden[k + 1] + 25 * resto * (orden[k + 2] - orden[k + 1])

\* the expression of desviacion_estandar without the test of pd.isna
redondeo_sin_isna(s) == s

\* float(round(std, 2)) if not pd.isna(std) else 0.0
redondeo_o_cero(s) == IF s # NaN THEN s ELSE 0

\* The dict of the code; the empty dict for a table with no day.  The mean,
\* the deviation and the percentiles are in hundredths of a minute.
resumen_variabilidad_diaria(t) ==
    LET filas == DiariosPorFecha(t)
        diarios == [k \in DOMAIN filas |-> filas[k].minutos_reproducidos]
        n == Len(diarios)
        total == SumaSeq(diarios)
    IN  IF diarios = <<>> THEN <<>>
        ELSE [promedio_minutos_por_dia |-> Redondear(100 * total, n),
              desviacion_estandar |-> redondeo_o_cero(std(diarios)),
              percentil_25 |-> quantile(diarios, 1),
              percentil_50 |-> quantile(diarios, 2),
              percentil_75 |-> quantile(diarios, 3),
              dias_altos |-> Cardinality({k \in DOMAIN diarios :
                                 2 * n * diarios[k] > 3 * total}),
              dias_bajos |-> Cardinality({k \in DOMAIN diarios :
                                 2 * n * diarios[k] < total}),
              total_dias |-> n]

-----------------------------------------------------------------------------
(* preparar_pastel_obsesion *)

\* max(a, b) of Python
max(a, b) == IF a >= b THEN a ELSE b

\* the four segments before the rows of zero are dropped; 100 per cent is
\* 10000 hundredths
SegmentosPastel(t) ==
    LET obs1 == indice_obsesion(t, 1)
        obs5 == indice_obsesion(t, 5)
        obs10 == indice_obsesion(t, 10)
        seg_top1 == obs1
        seg_top5 == max(obs5 - obs1, 0)
        seg_top10 == max(obs10 - obs5, 0)
        seg_otros == max(100 * 100 - obs10, 0)
    IN  <<[segmento |-> "Top 1", porcentaje |-> seg_top1],
          [segmento |-> "Resto Top 5", porcentaje |-> seg_top5],
          [segmento |-> "Resto Top 10", porcentaje |-> seg_top10],
          [segmento |-> "Otros", porcentaje |-> seg_otros]>>

\* preparar_pastel_obsesion that returns the four rows as they are
pastel_sin_filtro(t) == SegmentosPastel(t)

\* df_pastel[df_pastel["porcentaje"] > 0].reset_index(drop=True)
preparar_pastel_obsesion(t) ==
    SelectSeq(SegmentosPastel(t), LAMBDA r : r.porcentaje > 0)

-----------------------------------------------------------------------------
(* construir_df_rachas *)

\* umbrales = [5, 10, ..., 120]
umbrales == [k \in 1..24 |-> 5 * k]

\* info.get("longitud_racha", 0)
longitud_de(info) ==
    IF "longitud_racha" \in DOMAIN info THEN info.longitud_racha ELSE 0

\* one row per threshold, in the order of the list
construir_df_rachas(t) ==
    [k \in DOMAIN umbrales |->
        [umbral_minutos_dia |-> umbrales[k],
         longitud_dias |->
             longitud_de(racha_musical_mas_larga(t, umbrales[k]))]]

-----------------------------------------------------------------------------
(* top_canciones, dia_mas_musical, and artistas_emergentes_y_olvidados as one
   build computes it *)

\* a row with the column cancion
FilaCancion(d, h, a, c, m) ==
    [fecha_reproduccion |-> d * SegPorDia + h * SegPorHora,
     artista |-> a, cancion |-> c, minutos_reproducidos |-> m]

\* df.groupby(["cancion", "artista"])["minutos_reproducidos"].sum()
\*   .reset_index(): one row per pair of the table, ascending by cancion and
\* then by artista
PorCancion(t) ==
    LET canciones == Ascendente({t[i].cancion : i \in DOMAIN t})
        DeCancion(c) ==
            LET artistas == Ascendente({t[i].artista : i \in
                                {j \in DOMAIN t : t[j].cancion = c}})
            IN  [k \in DOMAIN artistas |->
                    [cancion |-> c, artista |-> artistas[k],
                     minutos_reproducidos |->
                         SumaIdx(t, {i \in DOMAIN t :
                             /\ t[i].cancion = c
                             /\ t[i].artista = artistas[k]})]]
        RECURSIVE Unir(_)
        Unir(k) == IF k > Len(canciones) THEN <<>>
                   ELSE DeCancion(canciones[k]) \o Unir(k + 1)
    IN  Unir(1)

\* .sort_values("minutos_reproducidos", ascending=False).head(n)
top_canciones(t, n, desempate) ==
    LET tabla == PorCancion(t)
    IN  head(Ordenar(tabla,
                     [k \in DOMAIN tabla |-> tabla[k].minutos_reproducidos],
                     FALSE, desempate), n)

\* Series.idxmax(): the label of the first of the greatest values; the labels
\* of diarios are 0, 1, ... after reset_index
idxmax(x) ==
    Minimo({k \in DOMAIN x : \A j \in DOMAIN x : x[k] >= x[j]}) - 1

\* the table of one row of the code; the empty diarios for an empty table
dia_mas_musical(t, desempate) ==
    LET diarios == DiariosPorFecha(t)
    IN  IF diarios = <<>> THEN diarios
        ELSE LET fila_top ==
                     En(diarios, idxmax([k \in DOMAIN diarios |->
                                    diarios[k].minutos_reproducidos]))
                 fecha_top == fila_top.fecha
                 en_dia == SelectSeq(t, LAMBDA f : fecha(f) = fecha_top)
                 artista_top == top_artistas(en_dia, 1, desempate)
             IN  <<[fecha |-> fecha_top,
                    minutos_reproducidos |-> fila_top.minutos_reproducidos,
                    top_artista |-> En(artista_top, 0).artista,
                    minutos_top_artista |-> En(artista_top, 0).valor]>>

\* artistas_emergentes_y_olvidados in a build with the given way of breaking
\* ties: one of the values of artistas_emergentes_y_olvidados(t, top_n)
emergentes_y_olvidados_en(t, top_n, desempate) ==
    IF t = <<>>
    THEN [emergentes |-> <<>>, olvidados |-> <<>>]
    ELSE LET pivot == ConDelta(Pivot(t))
         IN  [emergentes |->
                  head(Ordenar(pivot, Deltas(pivot), FALSE, desempate), top_n),
              olvidados |->
                  head(Ordenar(pivot, Deltas(pivot), TRUE, desempate), top_n)]

-----------------------------------------------------------------------------
(* minutos_por_hora, and what a query does to the table of its caller *)

\* df.groupby("hora")["minutos_reproducidos"].sum().sort_values()
minutos_por_hora(t, desempate) ==
    LET horas == Ascendente({hora(t[i]) : i \in DOMAIN t})
        serie == [k \in DOMAIN horas |->
                     [hora |-> horas[k],
                      valor |-> SumaIdx(t, {i \in DOMAIN t :
                                              hora(t[i]) = horas[k]})]]
    IN  Ordenar(serie, Valores(serie), TRUE, desempate)

\* A DataFrame is an object that several names can refer to.  The table of
\* the caller is the object "df"; the parameter df of a query is that object
\* until the query binds the name to another one.
Objeto(t) == [id |-> "df", filas |-> t]

\* copy without effect: the parameter goes on naming the table of the caller
copy_sin_copia(obj) == obj

\* df.copy(): another object with the same rows
copy(obj) == [id |-> "copia", filas |-> obj.filas]

\* df[columna] = valores: the object gets the column, or new values in it
asignar(obj, columna, valores) ==
    [id |-> obj.id,
     filas |-> [i \in DOMAIN obj.filas |->
                   [c \in DOMAIN obj.filas[i] \cup {columna} |->
                       IF c = columna THEN valores[i] ELSE obj.filas[i][c]]]]

\* the object that the name df of the query refers to when the query
\* returns, for the query of the given name on the table t
TablaLocal(op, t) ==
    LET fechas == [i \in DOMAIN t |-> fecha(t[i])]
    IN  CASE op = "resumen_semana" ->
                 asignar(asignar(copy(Objeto(t)), "fecha", fechas),
                         "grupo", [i \in DOMAIN t |-> grupo(t[i])])
          [] op = "bloque_horario" ->
                 asignar(copy(Objeto(t)), "bloque_horario",
                         [i \in DOMAIN t |-> bloque_horario(t[i])])
          [] op \in {"dia_mas_musical", "racha", "variabilidad"} ->
                 asignar(copy(Objeto(t)), "fecha", fechas)
          [] op = "emergentes_en" ->
                 IF t = <<>> THEN copy(Objeto(t))
                 ELSE asignar(copy(Objeto(t)), "mitad",
                              [i \in DOMAIN t |-> mitad(t[i], Corte(t))])
          [] OTHER -> Objeto(t)

\* the table of the caller once the query has returned
TablaDelLlamador(t, local) == IF local.id = "df" THEN local.filas ELSE t

-----------------------------------------------------------------------------
(* The loader and the queries as actions *)

SinResultado == [op |-> "ninguna"]

Init ==
    /\ df = <<>>
    /\ res = SinResultado
    /\ previo = SinResultado

\* cargar_datos: the loader reads one more row of the CSV into the table
Cargar(Filas, MaxFilas) ==
    /\ res = SinResultado
    /\ previo = SinResultado
    /\ Len(df) < MaxFilas
    /\ \E f \in Filas : df' = Append(df, f)
    /\ UNCHANGED <<res, previo>>

\* the dashboard shows the value a query returned and goes on to its next
\* query; the table is the same
Mostrar ==
    /\ res # SinResultado
    /\ res' = SinResultado
    /\ UNCHANGED <<df, previo>>

\* the rows of 1 minute are played at 0 h and the others at 23 h, so that
\* the events of one day have different timestamps
FilasRacha ==
    {Fila(d, IF m = 1 THEN 0 ELSE UltimaHora, 1, m) :
        d \in 1..MaxDia, m \in Minutos}

CargarRacha == Cargar(FilasRacha, MaxFilasRacha)

RachaMusical ==
    /\ res = SinResultado
    /\ \E u \in Umbrales :
          res' = [op |-> "racha", umbral |-> u,
                  valor |-> racha_musical_mas_larga(df, u)]
    /\ UNCHANGED <<df, previo>>

NextRacha == CargarRacha \/ RachaMusical \/ Mostrar

SpecRacha == Init /\ [][NextRacha]_vars

FilasObsesion ==
    {Fila(1, 0, a, m) : a \in 1..MaxArtistas, m \in MinutosConCero}

CargarObsesion == Cargar(FilasObsesion, MaxFilasObsesion)

Rangos == 0..MaxRango

IndiceObsesion ==
    /\ res = SinResultado
    /\ \E n \in Rangos :
          res' = [op |-> "indice_obsesion", n |-> n,
                  valor |-> indice_obsesion(df, n)]
    /\ UNCHANGED <<df, previo>>

ObsesionMulti ==
    /\ res = SinResultado
    /\ res' = [op |-> "obsesion_multi", valor |-> obsesion_multi(df, Niveles)]
    /\ UNCHANGED <<df, previo>>

NextObsesion == CargarObsesion \/ IndiceObsesion \/ ObsesionMulti \/ Mostrar

SpecObsesion == Init /\ [][NextObsesion]_vars

FilasBloque ==
    {Fila(1, h, 1, m) : h \in 0..UltimaHora, m \in Minutos}

CargarBloque == Cargar(FilasBloque, MaxFilasBloque)

MinutosPorBloqueHorario ==
    /\ res = SinResultado
    /\ res' = [op |-> "bloque_horario",
               valor |-> minutos_por_bloque_horario(df)]
    /\ UNCHANGED <<df, previo>>

NextBloque == CargarBloque \/ MinutosPorBloqueHorario \/ Mostrar

SpecBloque == Init /\ [][NextBloque]_vars

FilasSemana ==
    {Fila(d, 0, 1, m) : d \in 1..Len(orden_dias), m \in Minutos}

CargarSemana == Cargar(FilasSemana, MaxFilasSemana)

MinutosPorDiaSemana ==
    /\ res = SinResultado
    /\ res' = [op |-> "dia_semana", valor |-> minutos_por_dia_semana(df)]
    /\ UNCHANGED <<df, previo>>

NextSemana == CargarSemana \/ MinutosPorDiaSemana \/ Mostrar

SpecSemana == Init /\ [][NextSemana]_vars

\* the instants of the events: (day, hour) at 0 h, 12 h and 24 h
Instantes == {<<1, 0>>, <<1, 12>>, <<2, 0>>}

FilasMitad ==
    {Fila(x[1], x[2], a, m) :
        x \in Instantes, a \in 1..MaxArtistasMitad, m \in Minutos}

CargarMitad == Cargar(FilasMitad, MaxFilasMitad)

ArtistasEmergentesYOlvidados ==
    /\ res = SinResultado
    /\ \E n \in 1..MaxTopN :
          \E v \in artistas_emergentes_y_olvidados(df, n) :
              res' = [op |-> "emergentes", top_n |-> n, valor |-> v]
    /\ UNCHANGED <<df, previo>>

NextMitad == CargarMitad \/ ArtistasEmergentesYOlvidados \/ Mostrar

SpecMitad == Init /\ [][NextMitad]_vars

\* --- top_artistas and minutos_por_anio_mes: days on both sides of the end
\* --- of a month and of a year
MaxFilasMes == 3

\* 2024-01-31, 2024-02-01 and 2025-01-01
DiasMes == {31, 32, 367}

FilasMes ==
    {Fila(d, 0, a, m) : d \in DiasMes, a \in 1..MaxArtistasMitad, m \in Minutos}

CargarMes == Cargar(FilasMes, MaxFilasMes)

TopArtistas ==
    /\ res = SinResultado
    /\ \E n \in 1..MaxTopN, d \in Desempates :
           res' = [op |-> "top_artistas", n |-> n, desempate |-> d,
                   valor |-> top_artistas(df, n, d)]
    /\ UNCHANGED <<df, previo>>

MinutosPorAnioMes ==
    /\ res = SinResultado
    /\ res' = [op |-> "anio_mes", valor |-> minutos_por_anio_mes(df)]
    /\ UNCHANGED <<df, previo>>

NextMes == CargarMes \/ TopArtistas \/ MinutosPorAnioMes \/ Mostrar

SpecMes == Init /\ [][NextMes]_vars

\* --- resumen_entre_semana_vs_fin and resumen_variabilidad_diaria: days at
\* --- the two ends of the week and of the weekend, minutes that may be zero
MaxFilasDiario == 3

\* a Monday, a Thursday, a Friday and a Sunday
DiasDiario == {1, 4, 5, 7}

FilasDiario == {Fila(d, 0, 1, m) : d \in DiasDiario, m \in MinutosConCero}

CargarDiario == Cargar(FilasDiario, MaxFilasDiario)

ResumenEntreSemanaVsFin ==
    /\ res = SinResultado
    /\ \E u \in {0} \cup Umbrales :
           res' = [op |-> "resumen_semana", umbral_minutos_dia |-> u,
                   valor |-> resumen_entre_semana_vs_fin(df, u)]
    /\ UNCHANGED <<df, previo>>

\* render_tab_usuario: the summary with its default threshold, then the ratio
RatioSemana ==
    /\ res = SinResultado
    /\ res' = [op |-> "ratio",
               valor |-> ratio_semana(resumen_entre_semana_vs_fin(df, 0))]
    /\ UNCHANGED <<df, previo>>

ResumenVariabilidadDiaria ==
    /\ res = SinResultado
    /\ res' = [op |-> "variabilidad",
               valor |-> resumen_variabilidad_diaria(df)]
    /\ UNCHANGED <<df, previo>>

NextDiario ==
    \/ CargarDiario
    \/ ResumenEntreSemanaVsFin
    \/ RatioSemana
    \/ ResumenVariabilidadDiaria
    \/ Mostrar

SpecDiario == Init /\ [][NextDiario]_vars

\* --- preparar_pastel_obsesion: every row is of an artist of its own, so
\* --- that more than ten artists fit in the table
MaxFilasPastel == 11

MinutosPastel == {0, 1}

CargarPastel ==
    Cargar({Fila(1, 0, Len(df) + 1, m) : m \in MinutosPastel}, MaxFilasPastel)

PrepararPastelObsesion ==
    /\ res = SinResultado
    /\ res' = [op |-> "pastel", valor |-> preparar_pastel_obsesion(df)]
    /\ UNCHANGED <<df, previo>>

NextPastel == CargarPastel \/ PrepararPastelObsesion \/ Mostrar

SpecPastel == Init /\ [][NextPastel]_vars

\* --- construir_df_rachas: minutes of the size of the thresholds of the list
MaxFilasRachas == 3
MaxDiaRachas == 3

MinutosRachas == {5, 10}

FilasRachas ==
    {Fila(d, 0, 1, m) : d \in 1..MaxDiaRachas, m \in MinutosRachas}

CargarRachas == Cargar(FilasRachas, MaxFilasRachas)

ConstruirDfRachas ==
    /\ res = SinResultado
    /\ res' = [op |-> "df_rachas", valor |-> construir_df_rachas(df)]
    /\ UNCHANGED <<df, previo>>

NextRachas == CargarRachas \/ ConstruirDfRachas \/ Mostrar

SpecRachas == Init /\ [][NextRachas]_vars

\* --- the queries with a ranking, on rows of two days, two artists and two
\* --- songs, one minute each: sums tie and differ
MaxFilasOrden == 3

FilasOrden ==
    {FilaCancion(d, 0, a, c, 1) : d \in {1, 2}, a \in {1, 2}, c \in {1, 2}}

CargarOrden == Cargar(FilasOrden, MaxFilasOrden)

TopCanciones ==
    /\ res = SinResultado
    /\ \E n \in 1..MaxTopN, d \in Desempates :
           res' = [op |-> "top_canciones", n |-> n, desempate |-> d,
                   valor |-> top_canciones(df, n, d)]
    /\ UNCHANGED <<df, previo>>

DiaMasMusical ==
    /\ res = SinResultado
    /\ \E d \in Desempates :
           res' = [op |-> "dia_mas_musical", desempate |-> d,
                   valor |-> dia_mas_musical(df, d)]
    /\ UNCHANGED <<df, previo>>

EmergentesYOlvidadosEn ==
    /\ res = SinResultado
    /\ \E n \in 1..MaxTopN, d \in Desempates :
           res' = [op |-> "emergentes_en", top_n |-> n, desempate |-> d,
                   valor |-> emergentes_y_olvidados_en(df, n, d)]
    /\ UNCHANGED <<df, previo>>

NextOrden ==
    \/ CargarOrden
    \/ TopArtistas
    \/ TopCanciones
    \/ DiaMasMusical
    \/ RachaMusical
    \/ EmergentesYOlvidadosEn
    \/ Mostrar

SpecOrden == Init /\ [][NextOrden]_vars

\* --- every query of consultas.py on one table, with the table of the
\* --- caller as the call leaves it, and a value of an earlier call kept
MaxFilasConsultas == 2

\* a Monday at 0 h and a Friday at 12 h; the song has the code of the artist
FilasConsultas ==
    {FilaCancion(i[1], i[2], a, a, 1) : i \in {<<1, 0>>, <<5, 12>>},
                                        a \in {1, 2}}

CargarConsultas == Cargar(FilasConsultas, MaxFilasConsultas)

\* a call that returns r
Llamar(r) ==
    /\ res = SinResultado
    /\ res' = r
    /\ df' = TablaDelLlamador(df, TablaLocal(r.op, df))
    /\ UNCHANGED previo

LlamarTopArtistas ==
    \E n \in 1..MaxTopN, d \in Desempates :
        Llamar([op |-> "top_artistas", n |-> n, desempate |-> d,
                valor |-> top_artistas(df, n, d)])

LlamarMinutosPorHora ==
    \E d \in Desempates :
        Llamar([op |-> "hora", desempate |-> d,
                valor |-> minutos_por_hora(df, d)])

LlamarMinutosPorDiaSemana ==
    Llamar([op |-> "dia_semana", valor |-> minutos_por_dia_semana(df)])

LlamarMinutosPorAnioMes ==
    Llamar([op |-> "anio_mes", valor |-> minutos_por_anio_mes(df)])

LlamarIndiceObsesion ==
    \E n \in 1..MaxTopN :
        Llamar([op |-> "indice_obsesion", n |-> n,
                valor |-> indice_obsesion(df, n)])

LlamarResumenEntreSemanaVsFin ==
    \E u \in {0, 1} :
        Llamar([op |-> "resumen_semana", umbral_minutos_dia |-> u,
                valor |-> resumen_entre_semana_vs_fin(df, u)])

LlamarMinutosPorBloqueHorario ==
    Llamar([op |-> "bloque_horario",
            valor |-> minutos_por_bloque_horario(df)])

LlamarDiaMasMusical ==
    \E d \in Desempates :
        Llamar([op |-> "dia_mas_musical", desempate |-> d,
                valor |-> dia_mas_musical(df, d)])

LlamarRachaMusical ==
    \E u \in {1, 2} :
        Llamar([op |-> "racha", umbral |-> u,
                valor |-> racha_musical_mas_larga(df, u)])

LlamarResumenVariabilidadDiaria ==
    Llamar([op |-> "variabilidad",
            valor |-> resumen_variabilidad_diaria(df)])

LlamarTopCanciones ==
    \E n \in 1..MaxTopN, d \in Desempates :
        Llamar([op |-> "top_canciones", n |-> n, desempate |-> d,
                valor |-> top_canciones(df, n, d)])

LlamarEmergentesYOlvidados ==
    \E n \in 1..MaxTopN, d \in Desempates :
        Llamar([op |-> "emergentes_en", top_n |-> n, desempate |-> d,
                valor |-> emergentes_y_olvidados_en(df, n, d)])

\* the value is kept while other queries are called
Recordar ==
    /\ res # SinResultado
    /\ previo' = res
    /\ res' = SinResultado
    /\ UNCHANGED df

NextConsultas ==
    \/ CargarConsultas
    \/ LlamarTopArtistas
    \/ LlamarMinutosPorHora
    \/ LlamarMinutosPorDiaSemana
    \/ LlamarMinutosPorAnioMes
    \/ LlamarIndiceObsesion
    \/ LlamarResumenEntreSemanaVsFin
    \/ LlamarMinutosPorBloqueHorario
    \/ LlamarDiaMasMusical
    \/ LlamarRachaMusical
    \/ LlamarResumenVariabilidadDiaria
    \/ LlamarTopCanciones
    \/ LlamarEmergentesYOlvidados
    \/ Recordar
    \/ Mostrar

SpecConsultas == Init /\ [][NextConsultas]_vars

-----------------------------------------------------------------------------
(* Properties of racha_musical_mas_larga *)

\* the calendar days whose summed minutes reach the threshold u
DiasActivos(t, u) ==
    {d \in {fecha(t[i]) : i \in DOMAIN t} :
        SumaIdx(t, {i \in DOMAIN t : fecha(t[i]) = d}) >= u}

\* the n calendar days from a on all belong to Q
EsRacha(Q, a, n) == n >= 1 /\ \A k \in 0..(n - 1) : (a + k) \in Q

\* the greatest number of calendar-consecutive days of Q
MaxRacha(Q) ==
    IF Q = {} THEN 0
    ELSE Maximo({n \in 1..Cardinality(Q) : \E a \in Q : EsRacha(Q, a, n)})

\* C1: the length returned by racha_musical_mas_larga is the greatest
\* number of calendar-consecutive days whose daily sum reaches the
\* threshold, fecha_fin = fecha_inicio + (L - 1), and every day from
\* fecha_inicio to fecha_fin qualifies (an absent or non-qualifying day
\* breaks the run).
C1_RachaMaxima ==
    res.op = "racha" =>
        LET Q == DiasActivos(df, res.umbral)
            v == res.valor
        IN  /\ v.longitud_racha = MaxRacha(Q)
            /\ v.longitud_racha > 0 =>
                  /\ v.fecha_fin = v.fecha_inicio + (v.longitud_racha - 1)
                  /\ EsRacha(Q, v.fecha_inicio, v.longitud_racha)

\* the example of the specification: active days 1, 2, 3 and 5, all
\* reaching the threshold, give length 3 from day 1 to day 3
C1_Testigo ==
    /\ res.op = "racha"
    /\ {fecha(df[i]) : i \in DOMAIN df} = {1, 2, 3, 5}
    /\ DiasActivos(df, res.umbral) = {1, 2, 3, 5}
    /\ res.valor = [longitud_racha |-> 3, fecha_inicio |-> 1, fecha_fin |-> 3]

\* a day that is present but does not reach the threshold breaks the run
C1_TestigoDiaBajo ==
    /\ res.op = "racha"
    /\ {fecha(df[i]) : i \in DOMAIN df} = {1, 2, 3}
    /\ DiasActivos(df, res.umbral) = {1, 3}
    /\ res.valor.longitud_racha = 1

\* C2: when several runs share the greatest length, the earliest one is
\* returned: no run of the returned length starts before fecha_inicio.
C2_PrimeraRachaGana ==
    (res.op = "racha" /\ res.valor.longitud_racha > 0) =>
        LET Q == DiasActivos(df, res.umbral)
            v == res.valor
        IN  \A a \in Q :
                EsRacha(Q, a, v.longitud_racha) => v.fecha_inicio <= a

\* two separate runs of the greatest length, which is at least 2
C2_Testigo ==
    /\ res.op = "racha"
    /\ res.valor.longitud_racha >= 2
    /\ LET Q == DiasActivos(df, res.umbral)
       IN  \E a \in Q :
              /\ a > res.valor.fecha_fin
              /\ EsRacha(Q, a, res.valor.longitud_racha)

\* C3: with no qualifying day (the empty table included) the result is
\* length 0 with both dates None; with at least one qualifying day the
\* length is at least 1 and both dates are present.
C3_RachaVacia ==
    res.op = "racha" =>
        LET Q == DiasActivos(df, res.umbral)
            v == res.valor
        IN  /\ Q = {} =>
                  v = [longitud_racha |-> 0, fecha_inicio |-> None,
                       fecha_fin |-> None]
            /\ Q # {} =>
                  /\ v.longitud_racha >= 1
                  /\ v.fecha_inicio # None
                  /\ v.fecha_fin # None

\* a table with events of which no day reaches the threshold
C3_Testigo ==
    /\ res.op = "racha"
    /\ df # <<>>
    /\ DiasActivos(df, res.umbral) = {}
    /\ res.valor.longitud_racha = 0
    /\ res.valor.fecha_inicio = None

-----------------------------------------------------------------------------
(* Properties of indice_obsesion *)

\* C4: indice_obsesion is between 0 and 100 (0 and 10000 hundredths), and
\* it is 0 whenever the total minutes of the table is 0, the empty table
\* included.
C4_ObsesionAcotada ==
    res.op = "indice_obsesion" =>
        /\ 0 <= res.valor /\ res.valor <= 10000
        /\ (\A i \in DOMAIN df : df[i].minutos_reproducidos = 0)
              => res.valor = 0

\* a table with rows whose minutes are all 0
C4_Testigo ==
    /\ res.op = "indice_obsesion"
    /\ res.n >= 1
    /\ df # <<>>
    /\ \A i \in DOMAIN df : df[i].minutos_reproducidos = 0
    /\ res.valor = 0

\* a table where the first artist holds a third of the minutes
C4_TestigoTercio ==
    /\ res.op = "indice_obsesion"
    /\ res.n = 1
    /\ res.valor = 3333

\* C5: indice_obsesion does not decrease as n grows: the value returned
\* for n is at most the value for every greater rank, and the values of
\* obsesion_multi satisfy top_10 >= top_5 >= top_1.
C5_ObsesionMonotona ==
    /\ res.op = "indice_obsesion" =>
          \A n2 \in Rangos :
              res.n <= n2 => res.valor <= indice_obsesion(df, n2)
    /\ res.op = "obsesion_multi" =>
          /\ res.valor[1] <= res.valor[5]
          /\ res.valor[5] <= res.valor[10]

\* three artists: the values for the ranks 1 and 2 differ and both are
\* below that of rank 3
C5_Testigo ==
    /\ res.op = "indice_obsesion"
    /\ res.n = 1
    /\ res.valor < indice_obsesion(df, 2)
    /\ indice_obsesion(df, 2) < indice_obsesion(df, 3)

-----------------------------------------------------------------------------
(* Properties of minutos_por_bloque_horario and minutos_por_dia_semana *)

\* the hours of each block of the day, in the order of the result
HorasDeBloque == <<0..5, 6..11, 12..17, 18..23>>

\* C6: minutos_por_bloque_horario returns exactly the four blocks
\* madrugada, manana, tarde, noche in that order, for every table; the total
\* of a block is the sum of the minutes of the events whose hour is in it
\* (0 without events), and every hour 0..23 is in exactly one block, so that
\* the four totals add up to the minutes of the table.
C6_CuatroBloques ==
    res.op = "bloque_horario" =>
        /\ Len(res.valor) = 4
        /\ \A k \in 1..4 :
              /\ res.valor[k].etiqueta =
                    <<"madrugada", "manana", "tarde", "noche">>[k]
              /\ res.valor[k].valor =
                    SumaIdx(df, {i \in DOMAIN df :
                                   hora(df[i]) \in HorasDeBloque[k]})
        /\ \A h \in 0..23 :
              Cardinality({k \in 1..4 : h \in HorasDeBloque[k]}) = 1
        /\ SumaValores(res.valor) = SumaIdx(df, DOMAIN df)

\* events at the last hour of madrugada and at the first hour of noche:
\* the blocks manana and tarde are present with 0
C6_Testigo ==
    /\ res.op = "bloque_horario"
    /\ {hora(df[i]) : i \in DOMAIN df} = {5, 18}
    /\ res.valor[1].valor > 0
    /\ res.valor[2].valor = 0
    /\ res.valor[3].valor = 0
    /\ res.valor[4].valor > 0

\* the empty table gives the four blocks with 0
C6_TestigoVacia ==
    /\ res.op = "bloque_horario"
    /\ df = <<>>
    /\ Len(res.valor) = 4

\* the position of a weekday name in the order Monday..Sunday
PosicionDia(nombre) ==
    CHOOSE k \in 1..7 :
        <<"Monday", "Tuesday", "Wednesday", "Thursday",
          "Friday", "Saturday", "Sunday">>[k] = nombre

\* C7: minutos_por_dia_semana returns one entry, with the summed minutes,
\* for every weekday that has an event and none for the other weekdays, in
\* the order Monday to Sunday.
C7_DiasPresentes ==
    res.op = "dia_semana" =>
        /\ {res.valor[k].etiqueta : k \in DOMAIN res.valor} =
              {dia_semana(df[i]) : i \in DOMAIN df}
        /\ \A k \in 1..(Len(res.valor) - 1) :
              PosicionDia(res.valor[k].etiqueta)
                  < PosicionDia(res.valor[k + 1].etiqueta)
        /\ \A k \in DOMAIN res.valor :
              res.valor[k].valor =
                  SumaIdx(df, {i \in DOMAIN df :
                                 dia_semana(df[i]) = res.valor[k].etiqueta})

\* a Sunday loaded before a Monday: two entries, Monday first
C7_Testigo ==
    /\ res.op = "dia_semana"
    /\ Len(df) >= 2
    /\ dia_semana(df[1]) = "Sunday"
    /\ dia_semana(df[2]) = "Monday"
    /\ Len(res.valor) = 2
    /\ res.valor[1].etiqueta = "Monday"
    /\ res.valor[2].etiqueta = "Sunday"

-----------------------------------------------------------------------------
(* Properties of artistas_emergentes_y_olvidados *)

\* the earliest and the latest timestamp of a non-empty table
PrimerInstante(t) ==
    CHOOSE x \in {t[i].fecha_reproduccion : i \in DOMAIN t} :
        \A i \in DOMAIN t : x <= t[i].fecha_reproduccion
UltimoInstante(t) ==
    CHOOSE x \in {t[i].fecha_reproduccion : i \in DOMAIN t} :
        \A i \in DOMAIN t : x >= t[i].fecha_reproduccion

\* the events of artist a in the first half (not after the midpoint: at
\* most as far from the earliest instant as from the latest) and in the
\* second half
IndicesH1(t, a) ==
    LET primero == PrimerInstante(t)
        ultimo == UltimoInstante(t)
    IN  {i \in DOMAIN t :
            /\ t[i].artista = a
            /\ t[i].fecha_reproduccion - primero
                  <= ultimo - t[i].fecha_reproduccion}
IndicesH2(t, a) ==
    LET primero == PrimerInstante(t)
        ultimo == UltimoInstante(t)
    IN  {i \in DOMAIN t :
            /\ t[i].artista = a
            /\ t[i].fecha_reproduccion - primero
                  > ultimo - t[i].fecha_reproduccion}

\* the delta of artist a in the table: its minutes after the midpoint
\* minus its minutes up to the midpoint
DeltaDe(t, a) == SumaIdx(t, IndicesH2(t, a)) - SumaIdx(t, IndicesH1(t, a))

ArtistasDe(t) == {t[i].artista : i \in DOMAIN t}

\* the rows of both lists of the last result
FilasResultado ==
    {res.valor.emergentes[k] : k \in DOMAIN res.valor.emergentes}
        \cup {res.valor.olvidados[k] : k \in DOMAIN res.valor.olvidados}

\* C8: in both lists, an artist whose events are all after the midpoint
\* has delta = its minutes m, and an artist whose events are all at or
\* before the midpoint has delta = -m, also when a half has no event of
\* any artist.
C8_DeltaUnaMitad ==
    res.op = "emergentes" =>
        \A r \in FilasResultado :
            LET m == SumaIdx(df, {i \in DOMAIN df :
                                    df[i].artista = r.artista})
            IN  /\ IndicesH1(df, r.artista) = {} => r.delta = m
                /\ IndicesH2(df, r.artista) = {} => r.delta = 0 - m

\* all the timestamps are equal, so that no event is in H2: the pivot has
\* no column H2 and every delta is -m
C8_Testigo ==
    /\ res.op = "emergentes"
    /\ Len(df) >= 2
    /\ \A i \in DOMAIN df :
          df[i].fecha_reproduccion = df[1].fecha_reproduccion
    /\ Len(res.valor.emergentes) >= 1
    /\ res.valor.emergentes[1].delta < 0

\* an artist heard only in H2 next to an artist heard only in H1
C8_TestigoDosMitades ==
    /\ res.op = "emergentes"
    /\ \E r1, r2 \in FilasResultado :
          /\ IndicesH1(df, r1.artista) = {} /\ r1.delta > 0
          /\ IndicesH2(df, r2.artista) = {} /\ r2.delta < 0

\* C9 as stated: the emerging list is strictly descending and the fading
\* list strictly ascending by delta.
C9_OrdenEstricto ==
    res.op = "emergentes" =>
        /\ \A k \in 1..(Len(res.valor.emergentes) - 1) :
              res.valor.emergentes[k].delta
                  > res.valor.emergentes[k + 1].delta
        /\ \A k \in 1..(Len(res.valor.olvidados) - 1) :
              res.valor.olvidados[k].delta < res.valor.olvidados[k + 1].delta

\* lista holds n distinct artists with their deltas, n being top_n or the
\* number of artists if that is smaller; deltas gives the delta of every
\* artist of the table
EsListaDeltas(lista, deltas, top_n) ==
    /\ Len(lista) = IF top_n < Cardinality(DOMAIN deltas)
                    THEN top_n ELSE Cardinality(DOMAIN deltas)
    /\ \A k \in DOMAIN lista :
          /\ lista[k].artista \in DOMAIN deltas
          /\ lista[k].delta = deltas[lista[k].artista]
    /\ \A j, k \in DOMAIN lista :
          lista[j].artista = lista[k].artista => j = k

\* C9 amended: the emerging list is in descending and the fading list in
\* ascending order of delta, artists of equal delta being adjacent in any
\* order; the emerging list holds top_n artists (all, if there are fewer)
\* of which none has a smaller delta than an artist left out, the fading
\* list top_n artists of which none has a greater delta than one left out.
C9_OrdenNoEstricto ==
    res.op = "emergentes" =>
        LET e == res.valor.emergentes
            o == res.valor.olvidados
            deltas == [a \in ArtistasDe(df) |-> DeltaDe(df, a)]
        IN  /\ EsListaDeltas(e, deltas, res.top_n)
            /\ EsListaDeltas(o, deltas, res.top_n)
            /\ \A k \in 1..(Len(e) - 1) : e[k].delta >= e[k + 1].delta
            /\ \A k \in 1..(Len(o) - 1) : o[k].delta <= o[k + 1].delta
            /\ \A a \in DOMAIN deltas \ {e[j].artista : j \in DOMAIN e} :
                  \A k \in DOMAIN e : deltas[a] <= e[k].delta
            /\ \A a \in DOMAIN deltas \ {o[j].artista : j \in DOMAIN o} :
                  \A k \in DOMAIN o : deltas[a] >= o[k].delta

\* both lists hold two artists in order, with different deltas
C9_Testigo ==
    /\ res.op = "emergentes"
    /\ Len(res.valor.emergentes) = 2
    /\ res.valor.emergentes[1].delta > res.valor.emergentes[2].delta
    /\ res.valor.olvidados[1].delta < res.valor.olvidados[2].delta

\* both lists hold two artists of the same delta
C9_TestigoEmpate ==
    /\ res.op = "emergentes"
    /\ Len(res.valor.emergentes) = 2
    /\ res.valor.emergentes[1].delta = res.valor.emergentes[2].delta

\* the artists named in both lists of the last result
EnAmbasListas ==
    {res.valor.emergentes[k].artista : k \in DOMAIN res.valor.emergentes}
        \cap {res.valor.olvidados[k].artista :
                 k \in DOMAIN res.valor.olvidados}

C10_Testigo ==
    /\ res.op = "emergentes"
    /\ res.top_n = 1
    /\ Cardinality(ArtistasDe(df)) = 2
    /\ DeltaDe(df, 1) # DeltaDe(df, 2)
    /\ EnAmbasListas = {}
    /\ Len(res.valor.emergentes) = 1
    /\ Len(res.valor.olvidados) = 1

-----------------------------------------------------------------------------
(* Properties of the totals of top_artistas and minutos_por_anio_mes *)

\* the sum of the column minutos_reproducidos of a table
TotalMinutos(t) == SumaIdx(t, DOMAIN t)

RECURSIVE SumaColumna(_, _)
SumaColumna(s, I) ==
    IF I = {} THEN 0
    ELSE LET i == CHOOSE j \in I : TRUE
         IN  s[i] + SumaColumna(s, I \ {i})

\* C11: for a table with rows, the minutes of the rows of
\* minutos_por_anio_mes add up to the minutes of the table, and so do the
\* minutes of the rows of top_artistas when n is at least the number of
\* artists of the table: the two sums are the same number.
C11_TotalesIguales ==
    /\ (res.op = "anio_mes" /\ df # <<>>) =>
           SumaColumna([k \in DOMAIN res.valor |->
                            res.valor[k].minutos_reproducidos],
                       DOMAIN res.valor) = TotalMinutos(df)
    /\ (/\ res.op = "top_artistas"
        /\ df # <<>>
        /\ res.n >= Cardinality({df[i].artista : i \in DOMAIN df})) =>
           /\ SumaValores(res.valor) = TotalMinutos(df)
           /\ SumaValores(res.valor) =
                  SumaColumna([k \in DOMAIN minutos_por_anio_mes(df) |->
                      minutos_por_anio_mes(df)[k].minutos_reproducidos],
                      DOMAIN minutos_por_anio_mes(df))

\* two months of two years and two artists have been totalled
C11_Testigo ==
    /\ res.op = "top_artistas"
    /\ Len(res.valor) = 2
    /\ res.n = 2
    /\ Len(minutos_por_anio_mes(df)) = 2
    /\ \E i, j \in DOMAIN df : i # j /\ anio(df[i]) = anio(df[j])
                                     /\ mes(df[i]) = mes(df[j])

C11_TestigoMeses ==
    /\ res.op = "anio_mes"
    /\ Len(res.valor) = 2
    /\ res.valor[1].mes = res.valor[2].mes
    /\ Len(df) = 3

-----------------------------------------------------------------------------
(* Properties of resumen_variabilidad_diaria and of the ratio of the week *)

\* the dates of the table
FechasDe(t) == {fecha(t[i]) : i \in DOMAIN t}

\* C13: on a table all of whose rows are of one date,
\* resumen_variabilidad_diaria gives desviacion_estandar 0, dias_altos 0,
\* dias_bajos 0 and total_dias 1.
C13_UnSoloDia ==
    (res.op = "variabilidad" /\ Cardinality(FechasDe(df)) = 1) =>
        /\ res.valor.desviacion_estandar = 0
        /\ res.valor.dias_altos = 0
        /\ res.valor.dias_bajos = 0
        /\ res.valor.total_dias = 1

\* one day with two rows and minutes
C13_Testigo ==
    /\ res.op = "variabilidad"
    /\ Cardinality(FechasDe(df)) = 1
    /\ Len(df) = 2
    /\ res.valor.promedio_minutos_por_dia = 300

\* one day whose minutes are zero
C13_TestigoCero ==
    /\ res.op = "variabilidad"
    /\ Cardinality(FechasDe(df)) = 1
    /\ res.valor.promedio_minutos_por_dia = 0

\* The weekend of the claim, by the place of the date in the week: day 1 is
\* a Monday, so the dates 5, 6, 0 modulo 7 are Friday, Saturday, Sunday.
EsFinDeSemana(d) == d % 7 \in {5, 6, 0}

\* the minutes of the dates of a set, and the dates of the table in a group
MinutosDeFechas(t, F) == SumaIdx(t, {i \in DOMAIN t : fecha(t[i]) \in F})
FechasFin(t) == {d \in FechasDe(t) : EsFinDeSemana(d)}
FechasEntre(t) == {d \in FechasDe(t) : ~EsFinDeSemana(d)}

\* C14: the ratio the dashboard takes from resumen_entre_semana_vs_fin is
\* None, and neither infinite nor NaN, when the weekend has no minutes or one
\* of the two groups has no day; otherwise it is the mean of the days of the
\* week over the mean of the days of the weekend.
C14_RatioAusente ==
    res.op = "ratio" =>
        /\ res.valor.clase \in {"finito", "None"}
        /\ res.valor.clase = "None" <=>
               \/ FechasFin(df) = {}
               \/ FechasEntre(df) = {}
               \/ MinutosDeFechas(df, FechasFin(df)) = 0
        /\ res.valor.clase = "finito" =>
               res.valor.num * (Cardinality(FechasEntre(df))
                                * MinutosDeFechas(df, FechasFin(df)))
               = res.valor.den * (MinutosDeFechas(df, FechasEntre(df))
                                  * Cardinality(FechasFin(df)))

\* a weekend of zero minutes beside a week with minutes
C14_Testigo ==
    /\ res.op = "ratio"
    /\ res.valor = SinValor
    /\ FechasFin(df) # {}
    /\ MinutosDeFechas(df, FechasEntre(df)) > 0

\* a ratio that is not a whole number: 1/2 a day in the week, 2 in the weekend
C14_TestigoFinito ==
    /\ res.op = "ratio"
    /\ res.valor.clase = "finito"
    /\ res.valor.num * 4 = res.valor.den
    /\ Cardinality(FechasEntre(df)) = 2

-----------------------------------------------------------------------------
(* Properties of preparar_pastel_obsesion *)

RECURSIVE SumaPorcentajes(_)
SumaPorcentajes(s) ==
    IF s = <<>> THEN 0 ELSE s[1].porcentaje + SumaPorcentajes(Tail(s))

\* C16: every segment preparar_pastel_obsesion returns has a percentage
\* above zero, the percentages returned add up to 100 (10000 hundredths),
\* and a table whose minutes add up to zero gives the one segment Otros
\* with 100.
C16_PastelCompleto ==
    res.op = "pastel" =>
        /\ \A k \in DOMAIN res.valor : res.valor[k].porcentaje > 0
        /\ SumaPorcentajes(res.valor) = 100 * 100
        /\ SumaIdx(df, DOMAIN df) = 0 =>
               res.valor = <<[segmento |-> "Otros", porcentaje |-> 100 * 100]>>

\* eleven artists with minutes: the four segments, with rounded percentages
C16_Testigo ==
    /\ res.op = "pastel"
    /\ Len(res.valor) = 4
    /\ res.valor[1].porcentaje = 909
    /\ res.valor[3].porcentaje = 4546

\* rows, and no minutes
C16_TestigoCero ==
    /\ res.op = "pastel"
    /\ Len(df) = 2
    /\ SumaIdx(df, DOMAIN df) = 0

-----------------------------------------------------------------------------
(* Properties of construir_df_rachas *)

\* the thresholds the property compares: the sums a day can have, and the
\* number after each, from 0 to past the greatest sum of a day
UmbralesComparados ==
    {u \in 0..(MaxFilasRachas * Maximo(MinutosRachas) + 1) :
        \E m \in MinutosRachas : u % m \in {0, 1}}

\* C17: the length of the longest streak does not grow with the threshold:
\* for thresholds t1 <= t2 the length for t1 is at least the length for t2,
\* and the column longitud_dias of construir_df_rachas, whose thresholds go
\* up from 5 to 120, never goes up.
C17_RachaNoCreciente ==
    res.op = "df_rachas" =>
        /\ \A j, k \in DOMAIN res.valor :
               (res.valor[j].umbral_minutos_dia
                    <= res.valor[k].umbral_minutos_dia) =>
                   res.valor[j].longitud_dias >= res.valor[k].longitud_dias
        /\ LET largo == [u \in UmbralesComparados |->
                            racha_musical_mas_larga(df, u).longitud_racha]
           IN  \A t1, t2 \in UmbralesComparados :
                   t1 <= t2 => largo[t1] >= largo[t2]

\* a streak of three days at 5 minutes, of one day at 10, of none at 15
C17_Testigo ==
    /\ res.op = "df_rachas"
    /\ res.valor[1].longitud_dias = 3
    /\ res.valor[2].longitud_dias = 1
    /\ res.valor[3].longitud_dias = 0

-----------------------------------------------------------------------------
(* Properties of the order of the rows *)

\* the tables with the rows of t in another order
Reordenadas(t) ==
    {[i \in DOMAIN t |-> t[p[i]]] : p \in Permutaciones(Len(t))}

\* C15: the value a query with a ranking returns is the value it returns for
\* every table with the same rows in another order, in the same build:
\* top_artistas, top_canciones, dia_mas_musical, racha_musical_mas_larga and
\* artistas_emergentes_y_olvidados keep the same entries in the same order,
\* also where sums, daily totals or deltas tie.
C15_OrdenIrrelevante ==
    \A t \in Reordenadas(df) :
        /\ res.op = "top_artistas" =>
               top_artistas(t, res.n, res.desempate) = res.valor
        /\ res.op = "top_canciones" =>
               top_canciones(t, res.n, res.desempate) = res.valor
        /\ res.op = "dia_mas_musical" =>
               dia_mas_musical(t, res.desempate) = res.valor
        /\ res.op = "racha" =>
               racha_musical_mas_larga(t, res.umbral) = res.valor
        /\ res.op = "emergentes_en" =>
               emergentes_y_olvidados_en(t, res.top_n, res.desempate)
                   = res.valor

\* two artists with the same sum, the artist with the greater code first in
\* the table, and one of them cut off by n
C15_Testigo ==
    /\ res.op = "top_artistas"
    /\ res.n = 1
    /\ Len(df) = 2
    /\ df[1].artista > df[2].artista
    /\ Len(PorArtista(df)) = 2

\* two days with the same total, the later one first in the table
C15_TestigoDia ==
    /\ res.op = "dia_mas_musical"
    /\ Len(df) = 2
    /\ fecha(df[1]) > fecha(df[2])
    /\ res.valor[1].fecha = fecha(df[2])

\* two artists with the same delta, the greater code first in the table
C15_TestigoDelta ==
    /\ res.op = "emergentes_en"
    /\ res.top_n = 1
    /\ Len(df) = 2
    /\ df[1].artista > df[2].artista
    /\ \E j, k \in DOMAIN ConDelta(Pivot(df)) :
           j # k /\ ConDelta(Pivot(df))[j].delta = ConDelta(Pivot(df))[k].delta

-----------------------------------------------------------------------------
(* Properties of the queries as a whole *)

\* two values of the same query with the same arguments, in the same build
MismaLlamada(a, b) ==
    /\ a.op # "ninguna"
    /\ a.op = b.op
    /\ [a EXCEPT !.valor = 0] = [b EXCEPT !.valor = 0]

\* C12: a call of a query leaves the table of the caller as it was, rows
\* and columns, and a query called again on the table with the same
\* arguments, whatever was called in between, returns what it returned
\* before.
C12_TablaIntacta ==
    /\ [][res' # SinResultado => df' = df]_vars
    /\ [](MismaLlamada(res, previo) => res.valor = previo.valor)

\* a query that copies the table and adds a column has been called a second
\* time on rows whose deltas tie, a value of its first call being kept
C12_Testigo ==
    /\ res.op = "emergentes_en"
    /\ MismaLlamada(res, previo)
    /\ Len(df) = 2
    /\ Len(res.valor.emergentes) = 2
    /\ res.valor.emergentes[1].delta = res.valor.emergentes[2].delta

\* a value of one query is kept and another query has returned
C12_TestigoOtra ==
    /\ previo.op = "resumen_semana"
    /\ res.op = "racha"
    /\ res.valor.longitud_racha = 1
    /\ Len(previo.valor) = 2

====
